---------------------------- MODULE Spec2Model ----------------------------
(***************************************************************************)
(* pilutils: the canonical colour conversions (pilutils/basic.py) and the  *)
(* string recognizers with the universal resolver (pilutils/parse.py).     *)
(*                                                                         *)
(* A Python str is a sequence of one-character strings; a tuple is a       *)
(* sequence; a call either returns a value or raises, which is the record  *)
(* Ok(v) or Raise(exc, msg).                                               *)
(***************************************************************************)
EXTENDS Integers, Sequences, FiniteSets, TLC

VARIABLES
    colstr,     \* the string handed to a recognizer or to parse
    names,      \* the five loaded dataset tables (_css_names, ...)
    config,     \* the ten keyword flags of parse
    arg,        \* the argument of a canonical conversion
    prev,       \* the triple of the previous parse, kept by the re-resolution
    pc,         \* the function that ran last
    ret         \* what it returned or raised

vars == <<colstr, names, config, arg, prev, pc, ret>>

---------------------------------------------------------------------------
(* Outcomes of a call *)

Ok(v) == [ok |-> TRUE, val |-> v, exc |-> "", msg |-> ""]

Raise(e, m) == [ok |-> FALSE, val |-> <<>>, exc |-> e, msg |-> m]

NotCalled == Raise("", "")

---------------------------------------------------------------------------
(* Bounds of the model *)

\* whitespace characters put before and after an input, and around commas
MaxPad == 1

\* the largest out-of-range excess tried on a conversion argument
MaxExcess == 1

---------------------------------------------------------------------------
(* pilutils/basic.py: integers and bit operations *)

RECURSIVE BitOr(_, _)
\* a | b on non-negative integers
BitOr(a, b) ==
    IF a = 0 THEN b
    ELSE IF b = 0 THEN a
    ELSE (IF a % 2 = 1 \/ b % 2 = 1 THEN 1 ELSE 0) + 2 * BitOr(a \div 2, b \div 2)

RECURSIVE Pow2(_)
Pow2(k) == IF k = 0 THEN 1 ELSE 2 * Pow2(k - 1)

\* n << k and n >> k (Python floors, as \div does)
Shl(n, k) == n * Pow2(k)

Shr(n, k) == n \div Pow2(k)

\* all(isinstance(n, int) and 0 <= n < 256 for n in t); the tuples drawn are
\* tuples of integers
AllBytes(t) == \A i \in 1..Len(t) : 0 <= t[i] /\ t[i] < 256

\* hex_to_rgb with its upper limit one too high
hex_to_rgb_off_by_one(rgb) ==
    IF ~(0 <= rgb /\ rgb <= 16777216)
    THEN Raise("ValueError", "is not an RGB number")
    ELSE Ok(<<Shr(rgb, 16), Shr(rgb, 8) % 256, rgb % 256>>)

\* hex_to_rgb taking red from the bits of green
hex_to_rgb_shift8(rgb) ==
    IF ~(0 <= rgb /\ rgb <= 16777215)
    THEN Raise("ValueError", "is not an RGB number")
    ELSE Ok(<<Shr(rgb, 8) % 256, Shr(rgb, 8) % 256, rgb % 256>>)

hex_to_rgb(rgb) ==
    IF ~(0 <= rgb /\ rgb <= 16777215)
    THEN Raise("ValueError", "is not an RGB number")
    ELSE Ok(<<Shr(rgb, 16), Shr(rgb, 8) % 256, rgb % 256>>)

rgb_to_hex(rgb) ==
    IF ~AllBytes(rgb) \/ Len(rgb) # 3
    THEN Raise("ValueError", "is not an RGB tuple")
    ELSE Ok(BitOr(BitOr(Shl(rgb[1], 16), Shl(rgb[2], 8)), rgb[3]))

(* An RGBA number needs 32 bits and more, which is beyond the integers of   *)
(* the model checker: it is held as two limbs, n = hi * 2^16 + lo with     *)
(* 0 <= lo < 2^16 and hi any integer (negative for a negative n).          *)
Wide(hi, lo) == [hi |-> hi, lo |-> lo]

\* 0 <= rgba <= 0xFFFFFFFF
IsRgbaNumber(rgba) == 0 <= rgba.hi /\ rgba.hi <= 65535

hex_to_rgba(rgba) ==
    IF ~IsRgbaNumber(rgba)
    THEN Raise("ValueError", "is not an RGBA number")
    ELSE Ok(<<Shr(rgba.hi, 8), rgba.hi % 256, Shr(rgba.lo, 8) % 256, rgba.lo % 256>>)

rgba_to_hex(rgba) ==
    IF ~AllBytes(rgba) \/ Len(rgba) # 4
    THEN Raise("ValueError", "is not an RGBA tuple")
    ELSE Ok(Wide(BitOr(Shl(rgba[1], 8), rgba[2]), BitOr(Shl(rgba[3], 8), rgba[4])))

---------------------------------------------------------------------------
(* Python str and re primitives used by pilutils/parse.py *)

Whitespace == {" ", "\t", "\n"}

DecChars == <<"0", "1", "2", "3", "4", "5", "6", "7", "8", "9">>

HexChars == DecChars \o <<"a", "b", "c", "d", "e", "f">>

UpperChars == <<"A", "B", "C", "D", "E", "F", "G", "H", "I", "J", "K", "L", "M",
                "N", "O", "P", "Q", "R", "S", "T", "U", "V", "W", "X", "Y", "Z">>

LowerChars == <<"a", "b", "c", "d", "e", "f", "g", "h", "i", "j", "k", "l", "m",
                "n", "o", "p", "q", "r", "s", "t", "u", "v", "w", "x", "y", "z">>

Range(f) == {f[i] : i \in DOMAIN f}

LowerChar(c) ==
    IF c \in Range(UpperChars)
    THEN LowerChars[CHOOSE i \in DOMAIN UpperChars : UpperChars[i] = c]
    ELSE c

\* str.lower()
str_lower(s) == [i \in 1..Len(s) |-> LowerChar(s[i])]

\* str.strip()
str_strip(s) ==
    LET keep == {i \in 1..Len(s) : s[i] \notin Whitespace} IN
    IF keep = {} THEN <<>>
    ELSE SubSeq(s, CHOOSE i \in keep : \A j \in keep : i <= j,
                   CHOOSE i \in keep : \A j \in keep : j <= i)

\* \d
IsDigit(c) == c \in Range(DecChars)

\* [0-9A-Fa-f]
IsHexDigit(c) == c \in Range(HexChars) \/ c \in {"A", "B", "C", "D", "E", "F"}

AllDigits(s) == \A i \in 1..Len(s) : IsDigit(s[i])

DigitValue(c) == (CHOOSE i \in DOMAIN HexChars : HexChars[i] = LowerChar(c)) - 1

RECURSIVE int_base(_, _)
\* int(s, base) of a string of digits
int_base(s, base) ==
    IF s = <<>> THEN 0
    ELSE base * int_base(SubSeq(s, 1, Len(s) - 1), base) + DigitValue(s[Len(s)])

RECURSIVE Pow10(_)
Pow10(k) == IF k = 0 THEN 1 ELSE 10 * Pow10(k - 1)

(* re.match(r"^#?([0-9A-Fa-f]{n})$", s): the tuple of the group, or <<>>   *)
(* when the pattern does not match.                                        *)
re_match_hex(n, s) ==
    LET body == IF s # <<>> /\ s[1] = "#" THEN Tail(s) ELSE s IN
    IF Len(body) = n /\ \A i \in 1..n : IsHexDigit(body[i])
    THEN <<body>> ELSE <<>>

\* the hex pattern with {n,2n} for {n}
re_match_hex_upto(n, s) ==
    LET body == IF s # <<>> /\ s[1] = "#" THEN Tail(s) ELSE s IN
    IF Len(body) >= n /\ Len(body) <= 2 * n /\ \A i \in 1..Len(body) : IsHexDigit(body[i])
    THEN <<SubSeq(body, 1, n)>> ELSE <<>>

\* \d{1,3}
IsIntToken(f) == Len(f) >= 1 /\ Len(f) <= 3 /\ AllDigits(f)

\* [01]\.\d+
IsFloatToken(f) ==
    /\ Len(f) >= 3
    /\ f[1] \in {"0", "1"}
    /\ f[2] = "."
    /\ AllDigits(SubSeq(f, 3, Len(f)))

\* \d{1,3}(?:\.\d+)?  (the group of the percentage pattern, without its %)
IsDecimalToken(f) ==
    LET dots == {i \in 1..Len(f) : f[i] = "."} IN
    IF dots = {} THEN IsIntToken(f)
    ELSE LET d == CHOOSE i \in dots : \A j \in dots : i <= j IN
         /\ IsIntToken(SubSeq(f, 1, d - 1))
         /\ d < Len(f)
         /\ AllDigits(SubSeq(f, d + 1, Len(f)))

\* \d{1,3}(?:\.\d+)?%
IsPercentToken(f) ==
    Len(f) >= 2 /\ f[Len(f)] = "%" /\ IsDecimalToken(SubSeq(f, 1, Len(f) - 1))

\* the token of each functional pattern
IsToken(kind, f) ==
    CASE kind = "int"     -> IsIntToken(f)
      [] kind = "float"   -> IsFloatToken(f)
      [] kind = "percent" -> IsPercentToken(f)

(* The three functional patterns share the frame                            *)
(*   ^rgb\(\s*(T)\s*,\s*(T)\s*,\s*(T)\s*\)$                                *)
(* and differ in the token T. A token holds no comma and no whitespace, so *)
(* the frame matches exactly when the text between "rgb(" and the closing  *)
(* ")" splits at its commas into three fields that are tokens once their   *)
(* surrounding whitespace is dropped. The pattern is named by what its     *)
(* token is: "int", "float" or "percent".                                  *)
re_match_rgbfunc(kind, s) ==
    LET n      == Len(s)
        framed == n >= 5 /\ SubSeq(s, 1, 4) = <<"r", "g", "b", "(">> /\ s[n] = ")"
        inner  == SubSeq(s, 5, n - 1)
        commas == {i \in 1..Len(inner) : inner[i] = ","}
        c1     == CHOOSE i \in commas : \A j \in commas : i <= j
        c2     == CHOOSE i \in commas : \A j \in commas : j <= i
        fields == <<str_strip(SubSeq(inner, 1, c1 - 1)),
                    str_strip(SubSeq(inner, c1 + 1, c2 - 1)),
                    str_strip(SubSeq(inner, c2 + 1, Len(inner)))>>
    IN  IF framed /\ Cardinality(commas) = 2 /\ \A i \in 1..3 : IsToken(kind, fields[i])
        THEN fields ELSE <<>>

---------------------------------------------------------------------------
(* float() of a matched decimal literal.                                   *)
(*                                                                         *)
(* A double is held as the rational num/den, plus `up` > 0 when the double *)
(* lies above num/den by some units in the last place. A literal with a    *)
(* short fraction is held exactly: for every literal drawn here the        *)
(* comparison with the limit and the rounded product below have the value  *)
(* the exact decimal gives. A literal whose fraction is below 10^-9 is an  *)
(* integer plus a tail: float() rounds to nearest, ties to even, so the    *)
(* tail is lost when it is at most half a unit in the last place of the    *)
(* integer, and otherwise the double lies above the integer.               *)

\* the integer digits and the fraction digits of a literal
Literal(g) ==
    LET dots == {i \in 1..Len(g) : g[i] = "."} IN
    IF dots = {} THEN [ip |-> g, fp |-> <<>>]
    ELSE LET d == CHOOSE i \in dots : TRUE IN
         [ip |-> SubSeq(g, 1, d - 1), fp |-> SubSeq(g, d + 1, Len(g))]

\* half a unit in the last place of the double k: 2^-53 for k = 1, 2^-47
\* for 64 <= k < 128, as fraction digits
HalfUlp(k) ==
    CASE k = 1 ->
           <<0,0,0,0,0,0,0,0,0,0,0,0,0,0,0,1,1,1,0,2,2,3,0,2,4,6,2,5,1,5,6,5,4,0,
             4,2,3,6,3,1,6,6,8,0,9,0,8,2,0,3,1,2,5>>
      [] k >= 64 /\ k <= 127 ->
           <<0,0,0,0,0,0,0,0,0,0,0,0,0,0,7,1,0,5,4,2,7,3,5,7,6,0,1,0,0,1,8,5,8,7,
             1,1,2,4,2,6,7,5,7,8,1,2,5>>

\* the fraction 0.fp exceeds the fraction whose digits are u
FractionExceeds(fp, u) ==
    LET n     == IF Len(fp) > Len(u) THEN Len(fp) ELSE Len(u)
        a(i)  == IF i <= Len(fp) THEN DigitValue(fp[i]) ELSE 0
        b(i)  == IF i <= Len(u) THEN u[i] ELSE 0
    IN  \E i \in 1..n : a(i) > b(i) /\ \A j \in 1..(i - 1) : a(j) = b(j)

TinyFraction(fp) == Len(fp) > 9 /\ \A i \in 1..9 : fp[i] = "0"

py_float(g) ==
    LET lit == Literal(g)
        k   == int_base(lit.ip, 10)
    IN  IF TinyFraction(lit.fp)
        THEN [num |-> k, den |-> 1,
              up |-> IF FractionExceeds(lit.fp, HalfUlp(k)) THEN 1 ELSE 0]
        ELSE [num |-> int_base(lit.ip \o lit.fp, 10), den |-> Pow10(Len(lit.fp)),
              up |-> 0]

\* n > k for a double n and an integer k
FloatGreater(n, k) == n.num > k * n.den \/ (n.num = k * n.den /\ n.up > 0)

\* round(a / b): to the nearest integer, a tie to the even one
py_round(a, b) ==
    LET q == a \div b
        r == a % b
    IN  IF 2 * r > b \/ (2 * r = b /\ q % 2 = 1) THEN q + 1 ELSE q

---------------------------------------------------------------------------
(* pilutils/parse.py: the five grammar recognizers *)

\* parse_hex6 returning blue, green, red
parse_hex6_bgr(hex6) ==
    LET m == re_match_hex(6, str_strip(hex6))
        t == hex_to_rgb(int_base(m[1], 16))
    IN  IF m # <<>>
        THEN (IF t.ok THEN Ok(<<t.val[3], t.val[2], t.val[1]>>) ELSE t)
        ELSE Raise("ValueError", "does not match hex6 format")

parse_hex6(hex6) ==
    LET m == re_match_hex(6, str_strip(hex6)) IN
    IF m # <<>>
    THEN hex_to_rgb(int_base(m[1], 16))
    ELSE Raise("ValueError", "does not match hex6 format")

\* parse_hex3 parsing each digit followed by 0 instead of itself
parse_hex3_high_nibble(hex3) ==
    LET m == re_match_hex(3, str_strip(hex3)) IN
    IF m # <<>>
    THEN Ok([i \in 1..3 |-> 16 * int_base(<<m[1][i]>>, 16)])
    ELSE Raise("ValueError", "does not match hex3 format")

\* parse_hex3 on the pattern with {3,6}
parse_hex3_upto6(hex3) ==
    LET m == re_match_hex_upto(3, str_strip(hex3)) IN
    IF m # <<>>
    THEN Ok([i \in 1..3 |-> int_base(<<m[1][i], m[1][i]>>, 16)])
    ELSE Raise("ValueError", "does not match hex3 format")

parse_hex3(hex3) ==
    LET m == re_match_hex(3, str_strip(hex3)) IN
    IF m # <<>>
    THEN Ok([i \in 1..3 |-> int_base(<<m[1][i], m[1][i]>>, 16)])
    ELSE Raise("ValueError", "does not match hex3 format")

\* parse_rgbfunc_int without its test against 255
parse_rgbfunc_int_unchecked(rgbfunc) ==
    LET m == re_match_rgbfunc("int", str_strip(rgbfunc)) IN
    IF m # <<>>
    THEN Ok([i \in 1..3 |-> int_base(m[i], 10)])
    ELSE Raise("ValueError", "does not match rgbfunc_int format")

parse_rgbfunc_int(rgbfunc) ==
    LET m == re_match_rgbfunc("int", str_strip(rgbfunc))
        t == [i \in 1..3 |-> int_base(m[i], 10)]
    IN  IF m # <<>> /\ ~\E i \in 1..3 : t[i] > 255
        THEN Ok(t)
        ELSE Raise("ValueError", "does not match rgbfunc_int format")

\* parse_rgbfunc_float with all() for any()
parse_rgbfunc_float_all(rgbfunc) ==
    LET m == re_match_rgbfunc("float", str_strip(rgbfunc))
        t == [i \in 1..3 |-> py_float(m[i])]
    IN  IF m # <<>> /\ ~\A i \in 1..3 : FloatGreater(t[i], 1)
        THEN Ok([i \in 1..3 |-> py_round(t[i].num * 255, t[i].den)])
        ELSE Raise("ValueError", "does not match rgbfunc_float format")

parse_rgbfunc_float(rgbfunc) ==
    LET m == re_match_rgbfunc("float", str_strip(rgbfunc))
        t == [i \in 1..3 |-> py_float(m[i])]
    IN  IF m # <<>> /\ ~\E i \in 1..3 : FloatGreater(t[i], 1)
        THEN Ok([i \in 1..3 |-> py_round(t[i].num * 255, t[i].den)])
        ELSE Raise("ValueError", "does not match rgbfunc_float format")

parse_rgbfunc_percent(rgbfunc) ==
    LET m == re_match_rgbfunc("percent", str_strip(rgbfunc))
        \* the groups leave the % out
        t == [i \in 1..3 |-> py_float(SubSeq(m[i], 1, Len(m[i]) - 1))]
    IN  IF m # <<>> /\ ~\E i \in 1..3 : FloatGreater(t[i], 100)
        THEN Ok([i \in 1..3 |-> py_round(t[i].num * 255, t[i].den * 100)])
        ELSE Raise("ValueError", "does not match rgbfunc_percent format")

---------------------------------------------------------------------------
(* pilutils/parse.py: the five name recognizers. A dataset table is a      *)
(* function from its keys to their values, both strings.                   *)

Datasets == <<"css", "crayola", "xkcd", "meodai-best", "meodai">>

\* the common body of parse_name_css .. parse_name_meodai
lookup_name(table, label, name) ==
    LET key == str_lower(name) IN
    IF key \notin DOMAIN table
    THEN Raise("ValueError", label)
    ELSE parse_hex6(table[key])

parse_name_css(name) ==
    lookup_name(names["css"], "is not named in the CSS dataset", name)

parse_name_crayola(name) ==
    lookup_name(names["crayola"], "is not named in the crayola dataset", name)

parse_name_xkcd(name) ==
    lookup_name(names["xkcd"], "is not named in the xkcd dataset", name)

parse_name_meodai_best(name) ==
    lookup_name(names["meodai-best"], "is not named in the meodai-best dataset", name)

parse_name_meodai(name) ==
    lookup_name(names["meodai"], "is not named in the meodai dataset", name)

---------------------------------------------------------------------------
(* pilutils/parse.py: parse, the universal resolver *)

\* the order in which parse appends the recognizers to funcs
Order == <<"hex6", "hex3", "rgbfunc_int", "rgbfunc_float", "rgbfunc_percent",
           "name_css", "name_crayola", "name_xkcd", "name_meodai_best",
           "name_meodai">>

Flags == Range(Order)

\* the keyword defaults: every recognizer enabled
DefaultConfig == [f \in Flags |-> TRUE]

\* func(colstr) for the function a flag appends
Call(f, s) ==
    CASE f = "hex6"             -> parse_hex6(s)
      [] f = "hex3"             -> parse_hex3(s)
      [] f = "rgbfunc_int"      -> parse_rgbfunc_int(s)
      [] f = "rgbfunc_float"    -> parse_rgbfunc_float(s)
      [] f = "rgbfunc_percent"  -> parse_rgbfunc_percent(s)
      [] f = "name_css"         -> parse_name_css(s)
      [] f = "name_crayola"     -> parse_name_crayola(s)
      [] f = "name_xkcd"        -> parse_name_xkcd(s)
      [] f = "name_meodai_best" -> parse_name_meodai_best(s)
      [] f = "name_meodai"      -> parse_name_meodai(s)

\* res = None
None == [ok |-> FALSE, val |-> <<>>, exc |-> "", msg |-> "None"]

RECURSIVE try_funcs(_, _, _)
(* for func in funcs: try: res = func(colstr) / except ValueError: pass.    *)
(* An exception of another class leaves the loop and the function.         *)
try_funcs(funcs, s, res) ==
    IF funcs = <<>> THEN res
    ELSE LET r == Call(Head(funcs), s) IN
         IF r.ok THEN try_funcs(Tail(funcs), s, r)
         ELSE IF r.exc = "ValueError" THEN try_funcs(Tail(funcs), s, res)
         ELSE r

RECURSIVE first_of_funcs(_, _)
\* the loop leaving at the first success
first_of_funcs(funcs, s) ==
    IF funcs = <<>> THEN None
    ELSE LET r == Call(Head(funcs), s) IN
         IF r.ok THEN r ELSE first_of_funcs(Tail(funcs), s)

RECURSIVE last_error_of_funcs(_, _, _)
\* the loop keeping a failure when nothing has succeeded
last_error_of_funcs(funcs, s, res) ==
    IF funcs = <<>> THEN res
    ELSE LET r == Call(Head(funcs), s) IN
         IF r.ok \/ res = None THEN last_error_of_funcs(Tail(funcs), s, r)
         ELSE last_error_of_funcs(Tail(funcs), s, res)

parse_first_wins(s, flags) ==
    LET funcs == SelectSeq(Order, LAMBDA f : flags[f])
        res   == first_of_funcs(funcs, s)
    IN  IF res = None
        THEN Raise("ValueError", "Could not find a working parser")
        ELSE res

parse_reraise(s, flags) ==
    LET funcs == SelectSeq(Order, LAMBDA f : flags[f])
        res   == last_error_of_funcs(funcs, s, None)
    IN  IF res = None
        THEN Raise("ValueError", "Could not find a working parser")
        ELSE res

parse(s, flags) ==
    LET funcs == SelectSeq(Order, LAMBDA f : flags[f])
        res   == try_funcs(funcs, s, None)
    IN  IF res = None
        THEN Raise("ValueError", "Could not find a working parser")
        ELSE res

---------------------------------------------------------------------------
(* The inputs drawn *)

\* k whitespace characters
Pad(k) == [i \in 1..k |-> IF i % 2 = 1 THEN " " ELSE "\t"]

Padded(body) == {Pad(l) \o body \o Pad(r) : l \in 0..MaxPad, r \in 0..MaxPad}

HexDigitSample == {"0", "3", "a", "D", "f"}

Hex3Bodies == {<<a, b, c>> : a \in HexDigitSample, b \in HexDigitSample, c \in HexDigitSample}

Hex6Bodies ==
    {<<h[1], h[1], h[2], h[2], h[3], h[3]>> : h \in Hex3Bodies}
    \cup {<<"A", "B", "3", "4", "D", "F">>, <<"a", "b", "3", "4", "d", "f">>}

\* neither three nor six hex digits
NoHexBodies ==
    {<<>>, <<"a", "b">>, <<"a", "b", "3", "4">>, <<"a", "b", "3", "4", "d">>,
     <<"a", "b", "3", "4", "d", "f", "0">>, <<"a", "3", "g">>,
     <<"a", " ", "3", "d">>, <<"#", "a", "3", "d">>,
     <<"a", "b", "3", "4", "d", "g">>}

HexInputs ==
    UNION {Padded(h \o b) : h \in {<<>>, <<"#">>},
                            b \in Hex3Bodies \cup Hex6Bodies \cup NoHexBodies}

IntTokens ==
    {<<"0">>, <<"0", "0", "7">>, <<"1", "7", "1">>, <<"2", "5", "5">>,
     <<"2", "5", "6">>, <<"3", "0", "0">>, <<"1", "0", "0", "0">>}

\* 1.0000000000000001 and 1.0000000000000002 lie on the two sides of the
\* half unit in the last place of 1.0
FloatTokens ==
    {<<"0", ".", "0">>, <<"0", ".", "5">>, <<"0", ".", "6", "7">>,
     <<"1", ".", "0">>, <<"1", ".", "5">>, <<"2", ".", "0">>,
     <<"1", ".">> \o [i \in 1..15 |-> "0"] \o <<"1">>,
     <<"1", ".">> \o [i \in 1..15 |-> "0"] \o <<"2">>}

PercentTokens ==
    {<<"0", "%">>, <<"6", "7", "%">>, <<"8", "7", ".", "5", "%">>,
     <<"1", "0", "0", "%">>, <<"1", "0", "1", "%">>,
     <<"1", "0", "0", ".", "5", "%">>,
     <<"1", "0", "0", ".">> \o [i \in 1..14 |-> "0"] \o <<"1", "%">>,
     <<"1", "0", "0", ".">> \o [i \in 1..13 |-> "0"] \o <<"1", "%">>}

\* one token of each kind, for the inputs that mix the notations
MixedTokens == {<<"2", "5", "5">>, <<"1", ".", "0">>, <<"1", "0", "0", "%">>}

\* rgb(t1,t2,t3) with w whitespace characters around it, inside the
\* parentheses and around the commas
Functional(t, w) ==
    Pad(w) \o <<"r", "g", "b", "(">> \o Pad(w) \o t[1] \o Pad(w) \o <<",">> \o Pad(w)
    \o t[2] \o Pad(w) \o <<",">> \o Pad(w) \o t[3] \o Pad(w) \o <<")">> \o Pad(w)

Triples(T) == {<<a, b, c>> : a \in T, b \in T, c \in T}

\* the functional notation broken in its frame
BrokenFunctional ==
    {<<"r", "g", "b", "(", "1", ",", "2", ")">>,
     <<"r", "g", "b", "(", "1", ",", "2", ",", "3">>,
     <<"r", "g", "b", " ", "(", "1", ",", "2", ",", "3", ")">>,
     <<"R", "G", "B", "(", "1", ",", "2", ",", "3", ")">>,
     <<"r", "g", "b", "(", "1", " ", "7", ",", "2", ",", "3", ")">>,
     <<"r", "g", "b", "(", "1", ",", "2", ",", "3", ",", "4", ")">>,
     <<"r", "g", "b", "(", "1", ",", "2", ",", "3", ")", ")">>,
     <<"r", "g", "b", "(", "1", ".", ",", "0", ".", "5", ",", "0", ".", "5", ")">>,
     <<"r", "g", "b", "(", "5", "%", ",", "5", ".", "%", ",", "5", "%", ")">>}

FunctionalInputs ==
    {Functional(t, w) : t \in Triples(IntTokens) \cup Triples(FloatTokens)
                              \cup Triples(PercentTokens) \cup Triples(MixedTokens),
                        w \in 0..MaxPad}
    \cup BrokenFunctional

Red == <<"r", "e", "d">>

Blue == <<"b", "l", "u", "e">>

NameBodies ==
    {Red, <<"R", "E", "D">>, <<"R", "e", "d">>, Blue, <<"B", "l", "u", "E">>,
     <<"p", "i", "n", "k">>, <<"r", "e", " ", "d">>,
     <<"f", "f", "f">>, <<"F", "F", "F">>, <<"f", "f", "0", "0", "0", "0">>,
     <<"#", "f", "f", "0", "0", "0", "0">>, <<"0", "0", "f", "f", "0", "0">>}

NameInputs == UNION {Padded(b) : b \in NameBodies}

(* Dataset tables: lowercase keys, values that are strings. TableA and     *)
(* TableB disagree on "red"; both have a key that is itself a hex string;  *)
(* TableC holds a value that is no hex6 string.                            *)
TableNone == <<>>

TableA ==
    (Red :> <<"f", "f", "0", "0", "0", "0">>)
    @@ (<<"f", "f", "f">> :> <<"0", "0", "f", "f", "0", "0">>)

TableB ==
    (Red :> <<"#", "0", "0", "0", "0", "F", "F">>)
    @@ (Blue :> <<" ", "0", "0", "0", "0", "f", "f", " ">>)
    @@ (<<"f", "f", "0", "0", "0", "0">> :> <<"0", "0", "f", "f", "0", "0">>)

TableC ==
    (Red :> <<"f", "f", "0", "0">>)
    @@ (Blue :> <<"0", "0", "0", "0", "f", "f">>)

Loaded(css, crayola, xkcd, best, meodai) ==
    ("css" :> css) @@ ("crayola" :> crayola) @@ ("xkcd" :> xkcd)
    @@ ("meodai-best" :> best) @@ ("meodai" :> meodai)

NoNames == Loaded(TableNone, TableNone, TableNone, TableNone, TableNone)

NameSets ==
    {NoNames,
     Loaded(TableA, TableNone, TableNone, TableNone, TableNone),
     Loaded(TableA, TableNone, TableB, TableNone, TableC),
     Loaded(TableC, TableB, TableNone, TableA, TableNone),
     Loaded(TableNone, TableC, TableA, TableNone, TableB),
     Loaded(TableB, TableA, TableC, TableB, TableA)}

\* the strings handed to parse
ParseInputs ==
    Padded(Red) \cup
    {<<"R", "E", "D">>, Blue, <<"p", "i", "n", "k">>,
     <<>>, <<"f", "f", "f">>, <<"#", "F", "F", "F">>, <<"a", "3", "d">>,
     <<"f", "f", "0", "0", "0", "0">>, <<"#", "F", "F", "0", "0", "0", "0">>,
     <<" ", "0", "0", "f", "f", "0", "0", "\n">>, <<"#", "A", "B", "3", "4", "D", "F">>,
     <<"a", "b", "3", "4", "d">>,
     Functional(<<(<<"1", "7", "1">>), (<<"2", "5", "5">>), (<<"0">>)>>, 1),
     Functional(<<(<<"2", "5", "6">>), (<<"0">>), (<<"0">>)>>, 0),
     Functional(<<(<<"0", ".", "6", "7">>), (<<"0", ".", "5">>), (<<"1", ".", "0">>)>>, 0),
     Functional(<<(<<"1", ".", "5">>), (<<"0", ".", "5">>), (<<"1", ".", "0">>)>>, 0),
     Functional(<<(<<"6", "7", "%">>), (<<"8", "7", ".", "5", "%">>), (<<"1", "0", "0", "%">>)>>, 0),
     Functional(<<(<<"1", "0", "0", ".", "5", "%">>), (<<"0", "%">>), (<<"0", "%">>)>>, 0),
     Functional(<<(<<"1", ".">> \o [i \in 1..15 |-> "0"] \o <<"1">>),
                  (<<"0", ".", "0">>), (<<"0", ".", "5">>)>>, 0),
     Functional(<<(<<"2", "5", "5">>), (<<"1", ".", "0">>), (<<"1", "0", "0", "%">>)>>, 0)}

\* the arguments of the canonical conversions
ByteSample == {0, 1, 127, 128, 255}

Outside(lo, hi) == {lo - e : e \in 1..MaxExcess} \cup {hi + e : e \in 1..MaxExcess}

RgbNumbers ==
    {Shl(r, 16) + Shl(g, 8) + b : r \in ByteSample, g \in ByteSample, b \in ByteSample}
    \cup Outside(0, 16777215)

RgbaNumbers ==
    {Wide(hi, lo) :
        hi \in {Shl(r, 8) + g : r \in ByteSample, g \in ByteSample} \cup Outside(0, 65535),
        lo \in {Shl(b, 8) + a : b \in ByteSample, a \in ByteSample}}

Tuples == UNION {[1..n -> ByteSample \cup Outside(0, 255)] : n \in 2..4}

NoArg == [kind |-> "none", v |-> 0]

---------------------------------------------------------------------------
(* The calls. Every function is pure: a behaviour is one input and the     *)
(* call made on it.                                                        *)

Returns(f, r) ==
    /\ pc' = f
    /\ ret' = r
    /\ UNCHANGED <<colstr, names, arg, prev>>

Do_hex_to_rgb ==
    /\ pc = "start" /\ arg.kind = "rgb number"
    /\ Returns("hex_to_rgb", hex_to_rgb(arg.v)) /\ UNCHANGED config

Do_hex_to_rgba ==
    /\ pc = "start" /\ arg.kind = "rgba number"
    /\ Returns("hex_to_rgba", hex_to_rgba(arg.v)) /\ UNCHANGED config

Do_rgb_to_hex ==
    /\ pc = "start" /\ arg.kind = "tuple"
    /\ Returns("rgb_to_hex", rgb_to_hex(arg.v)) /\ UNCHANGED config

Do_rgba_to_hex ==
    /\ pc = "start" /\ arg.kind = "tuple"
    /\ Returns("rgba_to_hex", rgba_to_hex(arg.v)) /\ UNCHANGED config

Do_parse_hex6 ==
    pc = "start" /\ Returns("parse_hex6", parse_hex6(colstr)) /\ UNCHANGED config

Do_parse_hex3 ==
    pc = "start" /\ Returns("parse_hex3", parse_hex3(colstr)) /\ UNCHANGED config

Do_parse_rgbfunc_int ==
    pc = "start" /\ Returns("parse_rgbfunc_int", parse_rgbfunc_int(colstr))
    /\ UNCHANGED config

Do_parse_rgbfunc_float ==
    pc = "start" /\ Returns("parse_rgbfunc_float", parse_rgbfunc_float(colstr))
    /\ UNCHANGED config

Do_parse_rgbfunc_percent ==
    pc = "start" /\ Returns("parse_rgbfunc_percent", parse_rgbfunc_percent(colstr))
    /\ UNCHANGED config

Do_parse_name_css ==
    pc = "start" /\ Returns("parse_name_css", parse_name_css(colstr)) /\ UNCHANGED config

Do_parse_name_crayola ==
    pc = "start" /\ Returns("parse_name_crayola", parse_name_crayola(colstr))
    /\ UNCHANGED config

Do_parse_name_xkcd ==
    pc = "start" /\ Returns("parse_name_xkcd", parse_name_xkcd(colstr)) /\ UNCHANGED config

Do_parse_name_meodai_best ==
    pc = "start" /\ Returns("parse_name_meodai_best", parse_name_meodai_best(colstr))
    /\ UNCHANGED config

Do_parse_name_meodai ==
    pc = "start" /\ Returns("parse_name_meodai", parse_name_meodai(colstr))
    /\ UNCHANGED config

\* parse(colstr, **flags)
Do_parse ==
    /\ pc = "start"
    /\ \E flags \in [Flags -> BOOLEAN] :
          /\ config' = flags
          /\ Returns("parse", parse(colstr, flags))

\* "%06x" % n, in either letter case
HexString(n, upper) ==
    [i \in 1..6 |->
        LET c == HexChars[(Shr(n, 4 * (6 - i)) % 16) + 1] IN
        IF upper /\ c \in Range(LowerChars)
        THEN UpperChars[CHOOSE j \in DOMAIN LowerChars : LowerChars[j] = c]
        ELSE c]

(* The caller of the idempotence property: the triple parse returned under *)
(* the default flags is packed by rgb_to_hex, written as six hex digits    *)
(* and handed to parse again, under the same flags and tables.             *)
Do_reparse ==
    /\ pc = "parse" /\ ret.ok /\ config = DefaultConfig
    /\ \E hash \in {<<>>, <<"#">>}, upper \in BOOLEAN :
          LET canonical == hash \o HexString(rgb_to_hex(ret.val).val, upper) IN
          /\ colstr' = canonical
          /\ prev' = ret.val
          /\ ret' = parse(canonical, config)
          /\ pc' = "reparse"
          /\ UNCHANGED <<names, config, arg>>

InitIdle ==
    /\ pc = "start"
    /\ ret = NotCalled
    /\ config = DefaultConfig
    /\ prev = <<>>

\* the canonical conversions
InitConv ==
    /\ InitIdle
    /\ \/ \E n \in RgbNumbers : arg = [kind |-> "rgb number", v |-> n]
       \/ \E n \in RgbaNumbers : arg = [kind |-> "rgba number", v |-> n]
       \/ \E t \in Tuples : arg = [kind |-> "tuple", v |-> t]
    /\ colstr = <<>>
    /\ names = NoNames

NextConv == Do_hex_to_rgb \/ Do_hex_to_rgba \/ Do_rgb_to_hex \/ Do_rgba_to_hex

SpecConv == InitConv /\ [][NextConv]_vars

\* the ten recognizers, each called on its own
InitRecog ==
    /\ InitIdle
    /\ arg = NoArg
    /\ \/ colstr \in HexInputs \cup FunctionalInputs /\ names = NoNames
       \/ colstr \in NameInputs /\ names \in NameSets

NextRecog ==
    \/ Do_parse_hex6
    \/ Do_parse_hex3
    \/ Do_parse_rgbfunc_int
    \/ Do_parse_rgbfunc_float
    \/ Do_parse_rgbfunc_percent
    \/ Do_parse_name_css
    \/ Do_parse_name_crayola
    \/ Do_parse_name_xkcd
    \/ Do_parse_name_meodai_best
    \/ Do_parse_name_meodai

SpecRecog == InitRecog /\ [][NextRecog]_vars

\* the resolver, and the recognizers on the same inputs
Init ==
    /\ InitIdle
    /\ arg = NoArg
    /\ colstr \in ParseInputs
    /\ names \in NameSets

Next == NextRecog \/ Do_parse \/ Do_reparse

Spec == Init /\ [][Next]_vars

---------------------------------------------------------------------------
(* Properties *)

\* the positions, in the canonical order, of the recognizers that the flags
\* enable and that succeed on s
Succeeding(s, flags) ==
    {i \in DOMAIN Order : flags[Order[i]] /\ Call(Order[i], s).ok}

NamePositions == 6..10

GrammarPositions == 1..5

First(S) == CHOOSE i \in S : \A j \in S : i <= j

Last(S) == CHOOSE i \in S : \A j \in S : j <= i

NoMatchingFormat == Raise("ValueError", "Could not find a working parser")

IsTriple(t) == Len(t) = 3 /\ \A i \in 1..3 : t[i] \in 0..255

(* C1: whenever at least one enabled recognizer succeeds on the input,     *)
(* parse returns the result of the enabled succeeding recognizer that      *)
(* comes last in the canonical order, whatever the flags and whichever     *)
(* recognizers fail between or after the succeeding ones.                  *)
C1_LastSuccessWins ==
    pc = "parse" /\ Succeeding(colstr, config) # {}
        => ret = Call(Order[Last(Succeeding(colstr, config))], colstr)

\* two enabled recognizers succeed with different results, an enabled one
\* after them fails, and the later result is returned
C1_Witness ==
    /\ pc = "parse"
    /\ \E i, j, k \in DOMAIN Order :
          /\ i < j /\ j < k
          /\ {i, j} \subseteq Succeeding(colstr, config)
          /\ config[Order[k]] /\ ~Call(Order[k], colstr).ok
          /\ Call(Order[i], colstr) # Call(Order[j], colstr)
          /\ j = Last(Succeeding(colstr, config))
          /\ ret = Call(Order[j], colstr)

(* C2: parse fails exactly when no enabled recognizer succeeds on the      *)
(* input, a disabled recognizer counting for nothing, and the failure is   *)
(* always the resolver's own, never the failure of a recognizer.           *)
C2_FailsIffNoneEnabledSucceeds ==
    pc = "parse" =>
        /\ ~ret.ok <=> Succeeding(colstr, config) = {}
        /\ ~ret.ok => ret = NoMatchingFormat

\* parse fails although a disabled recognizer would succeed, and an enabled
\* name recognizer found the key with a value that is no hex6 string
C2_Witness ==
    /\ pc = "parse" /\ ret = NoMatchingFormat
    /\ \E i \in DOMAIN Order : ~config[Order[i]] /\ Call(Order[i], colstr).ok
    /\ \E i \in NamePositions :
          /\ config[Order[i]]
          /\ Call(Order[i], colstr) = Raise("ValueError", "does not match hex6 format")

(* C3: the conversions are exact inverses on their domains: packing the    *)
(* triple (quad) of an RGB (RGBA) number gives the number back, unpacking  *)
(* the number of a triple (quad) of bytes gives the triple (quad) back,    *)
(* and red is the most significant byte.                                   *)
C3_RoundTrip ==
    /\ pc = "hex_to_rgb" /\ 0 <= arg.v /\ arg.v <= 16777215
          => ret.ok /\ rgb_to_hex(ret.val) = Ok(arg.v)
    /\ pc = "rgb_to_hex" /\ Len(arg.v) = 3 /\ (\A i \in 1..3 : arg.v[i] \in 0..255)
          => ret.ok /\ hex_to_rgb(ret.val) = Ok(arg.v) /\ ret.val \div 65536 = arg.v[1]
    /\ pc = "hex_to_rgba" /\ 0 <= arg.v.hi /\ arg.v.hi <= 65535
          => ret.ok /\ rgba_to_hex(ret.val) = Ok(arg.v)
    /\ pc = "rgba_to_hex" /\ Len(arg.v) = 4 /\ (\A i \in 1..4 : arg.v[i] \in 0..255)
          => ret.ok /\ hex_to_rgba(ret.val) = Ok(arg.v) /\ ret.val.hi \div 256 = arg.v[1]

\* a triple with three different bytes has been packed
C3_Witness ==
    pc = "rgb_to_hex" /\ arg.v = <<255, 128, 1>> /\ ret = Ok(16744449)

(* C4: each conversion raises exactly on the arguments outside its domain: *)
(* a number below 0 or above 0xFFFFFF (0xFFFFFFFF), a tuple with a         *)
(* component outside [0,255] or with the wrong number of components.       *)
C4_RangeErrors ==
    /\ pc = "hex_to_rgb" => (~ret.ok <=> arg.v < 0 \/ arg.v > 16777215)
    /\ pc = "hex_to_rgba" => (~ret.ok <=> arg.v.hi < 0 \/ arg.v.hi > 65535)
    /\ pc = "rgb_to_hex" =>
          (~ret.ok <=> (\E i \in 1..Len(arg.v) : arg.v[i] \notin 0..255) \/ Len(arg.v) # 3)
    /\ pc = "rgba_to_hex" =>
          (~ret.ok <=> (\E i \in 1..Len(arg.v) : arg.v[i] \notin 0..255) \/ Len(arg.v) # 4)
    /\ pc # "start" /\ ~ret.ok => ret.exc = "ValueError"

\* a pair of bytes in range is refused for its arity
C4_Witness ==
    pc = "rgb_to_hex" /\ arg.v = <<0, 0>> /\ ~ret.ok /\ ret.exc = "ValueError"

(* C5: whatever a recognizer or parse returns is a triple of three         *)
(* integers in [0,255].                                                    *)
C5_ResultIsTriple ==
    pc # "start" /\ ret.ok => IsTriple(ret.val)

\* the percentage recognizer has scaled and rounded three values
C5_Witness ==
    pc = "parse_rgbfunc_percent" /\ ret = Ok(<<171, 223, 255>>)

\* the input without its surrounding whitespace and its leading #
HexBody(s) ==
    LET t == str_strip(s) IN
    IF t # <<>> /\ t[1] = "#" THEN Tail(t) ELSE t

IsHexBody(b, n) == Len(b) = n /\ \A i \in 1..n : IsHexDigit(b[i])

NameCalls ==
    <<"parse_name_css", "parse_name_crayola", "parse_name_xkcd",
      "parse_name_meodai_best", "parse_name_meodai">>

UnknownName ==
    <<"is not named in the CSS dataset", "is not named in the crayola dataset",
      "is not named in the xkcd dataset", "is not named in the meodai-best dataset",
      "is not named in the meodai dataset">>

(* C6: a name recognizer looks up the trimmed, lowercased input: when that *)
(* is a key with a hex6 value, the call returns the triple of the value,   *)
(* in any letter case and with any surrounding whitespace; when it is no   *)
(* key, the call fails with the dataset's unknown-name failure.            *)
C6_LookupTrimmedLowercased ==
    \A d \in DOMAIN Datasets :
        pc = NameCalls[d] =>
            LET key   == str_lower(str_strip(colstr))
                table == names[Datasets[d]]
            IN  /\ key \in DOMAIN table /\ parse_hex6(table[key]).ok
                      => ret = parse_hex6(table[key])
                /\ key \notin DOMAIN table
                      => ret = Raise("ValueError", UnknownName[d])

(* C7: when parse, under the default flags, returned a triple, parsing the *)
(* six hex digits of that triple (with or without #) under the same flags  *)
(* and tables returns the same triple.                                     *)
C7_Idempotent ==
    pc = "reparse" => ret = Ok(prev)

(* C7 as amended: the same, provided no name recognizer accepts the six    *)
(* hex digits, that is, no table has them as a key with a hex6 value.      *)
C7_IdempotentUnlessNamed ==
    pc = "reparse" /\ (\A i \in NamePositions : ~Call(Order[i], colstr).ok)
        => ret = Ok(prev)

\* a triple that came from a dataset table has been parsed again from its
\* hex digits
C7_Witness ==
    /\ pc = "reparse"
    /\ \A i \in NamePositions : ~Call(Order[i], colstr).ok
    /\ colstr = <<"#", "0", "0", "0", "0", "F", "F">>
    /\ prev = <<0, 0, 255>>
    /\ ret = Ok(prev)

\* the resolver that returns the first success instead of the last
FirstMatchWins(s, flags) ==
    IF Succeeding(s, flags) = {} THEN NoMatchingFormat
    ELSE Call(Order[First(Succeeding(s, flags))], s)

(* C8: on every input that at most one name recognizer accepts, the        *)
(* last-success resolver and the first-match resolver return the same.     *)
C8_SameAsFirstMatch ==
    pc = "parse" /\ Cardinality({i \in NamePositions : Call(Order[i], colstr).ok}) <= 1
        => ret = FirstMatchWins(colstr, config)

(* C8 as amended: the two resolvers return the same on every input that no *)
(* enabled name recognizer accepts, and on every input that one enabled    *)
(* name recognizer and no enabled grammar recognizer accepts.              *)
C8_SameAsFirstMatchUnlessShared ==
    LET S == Succeeding(colstr, config) IN
    pc = "parse" /\ (\/ S \cap NamePositions = {}
                     \/ Cardinality(S \cap NamePositions) = 1 /\ S \cap GrammarPositions = {})
        => ret = FirstMatchWins(colstr, config)

\* a grammar recognizer succeeds with every name recognizer enabled and
\* none of them accepting, and both resolvers return its triple
C8_Witness ==
    /\ pc = "parse" /\ ret.ok
    /\ \A i \in NamePositions : config[Order[i]]
    /\ Succeeding(colstr, config) \cap NamePositions = {}
    /\ Succeeding(colstr, config) \cap GrammarPositions # {}
    /\ names # NoNames
    /\ ret = FirstMatchWins(colstr, config)

\* the groups of the functional pattern on the input, <<>> without a match
Groups(kind) == re_match_rgbfunc(kind, str_strip(colstr))

Number(g) == IF g[Len(g)] = "%" THEN SubSeq(g, 1, Len(g) - 1) ELSE g

\* the decimal literal g is above the integer k
Above(g, k) ==
    LET lit == Literal(Number(g)) IN
    \/ int_base(lit.ip, 10) > k
    \/ int_base(lit.ip, 10) = k /\ \E i \in 1..Len(lit.fp) : lit.fp[i] # "0"

\* the decimal literal g is above the integer k by more than half a unit in
\* the last place of the double k
AboveAsDouble(g, k) ==
    LET lit == Literal(Number(g)) IN
    \/ int_base(lit.ip, 10) > k
    \/ int_base(lit.ip, 10) = k /\ FractionExceeds(lit.fp, HalfUlp(k))

\* the call on an input of the right grammar succeeds exactly when no
\* value is beyond the limit, and fails with the format's failure
InRangeOrMismatch(call, kind, asDouble, k, format) ==
    pc = call /\ Groups(kind) # <<>> =>
        /\ ret.ok <=> \A i \in 1..3 :
                         ~(IF asDouble THEN AboveAsDouble(Groups(kind)[i], k)
                                       ELSE Above(Groups(kind)[i], k))
        /\ ~ret.ok => ret = Raise("ValueError", format)

(* C9: on an input of the functional grammar a recognizer succeeds exactly *)
(* when its three values are all within range (255, 1.0, 100), the integer *)
(* recognizer returning the integers unchanged, and otherwise fails with   *)
(* the format's failure.                                                   *)
C9_InRangeIffSucceeds ==
    /\ InRangeOrMismatch("parse_rgbfunc_int", "int", FALSE, 255,
                         "does not match rgbfunc_int format")
    /\ InRangeOrMismatch("parse_rgbfunc_float", "float", FALSE, 1,
                         "does not match rgbfunc_float format")
    /\ InRangeOrMismatch("parse_rgbfunc_percent", "percent", FALSE, 100,
                         "does not match rgbfunc_percent format")
    /\ pc = "parse_rgbfunc_int" /\ ret.ok
          => ret.val = [i \in 1..3 |-> int_base(Groups("int")[i], 10)]

(* C9 as amended: the values of the float and of the percentage recognizer *)
(* are compared as doubles, so a literal above the limit by at most half a *)
(* unit in the last place of the limit (2^-53 at 1.0, 2^-47 at 100) is     *)
(* within range.                                                           *)
C9_InRangeAsDoubleIffSucceeds ==
    /\ InRangeOrMismatch("parse_rgbfunc_int", "int", FALSE, 255,
                         "does not match rgbfunc_int format")
    /\ InRangeOrMismatch("parse_rgbfunc_float", "float", TRUE, 1,
                         "does not match rgbfunc_float format")
    /\ InRangeOrMismatch("parse_rgbfunc_percent", "percent", TRUE, 100,
                         "does not match rgbfunc_percent format")
    /\ pc = "parse_rgbfunc_int" /\ ret.ok
          => ret.val = [i \in 1..3 |-> int_base(Groups("int")[i], 10)]

\* the float recognizer has accepted a literal just above 1.0 as 1.0, next
\* to two values below the limit
C9_Witness ==
    /\ pc = "parse_rgbfunc_float" /\ Groups("float") # <<>>
    /\ Above(Groups("float")[1], 1)
    /\ ~AboveAsDouble(Groups("float")[1], 1)
    /\ ret = Ok(<<255, 128, 171>>)

(* C10: parse_hex3 on three hex digits, in either case, with or without #  *)
(* and surrounding whitespace, succeeds with what parse_hex6 returns on    *)
(* the digits doubled, 17 times each digit; no input is accepted by both   *)
(* parse_hex3 and parse_hex6, and an input of neither three nor six digits *)
(* is rejected by both.                                                    *)
C10_Hex3DoublesNibbles ==
    LET b == HexBody(colstr) IN
    /\ pc = "parse_hex3" /\ IsHexBody(b, 3)
          => /\ ret.ok
             /\ ret = parse_hex6(<<b[1], b[1], b[2], b[2], b[3], b[3]>>)
             /\ \A i \in 1..3 : ret.val[i] = 17 * DigitValue(b[i])
    /\ pc = "parse_hex3" /\ ret.ok => ~parse_hex6(colstr).ok
    /\ pc = "parse_hex6" /\ ret.ok => ~parse_hex3(colstr).ok
    /\ pc \in {"parse_hex3", "parse_hex6"} /\ Len(b) \notin {3, 6} => ~ret.ok

\* #a3D between whitespace
C10_Witness ==
    /\ pc = "parse_hex3"
    /\ colstr = <<" ", "#", "a", "3", "D", " ">>
    /\ ret = Ok(<<170, 51, 221>>)

===========================================================================
